---------------------------- MODULE Spec2Model ----------------------------
(***************************************************************************)
(* A model of the dymean spell-suggestion engine (package dymean):         *)
(*   - language.go       language registry, normalisation, detection       *)
(*   - levenshtein.go    edit distance and similarity                      *)
(*   - bloom_filter.go   BloomFilter, CandidateGenerator                   *)
(*   - did_you_mean.go   DidYouMean, the checker                           *)
(*                                                                         *)
(* A Go string is a sequence of bytes; it is modelled as a sequence of     *)
(* numbers in 0..255.  Code points are obtained by UTF-8 decoding, as Go's *)
(* "for _, r := range s" does.                                             *)
(***************************************************************************)
EXTENDS Integers, Sequences, FiniteSets, TLC

(***************************************************************************)
(* Generic helpers on sequences and sets.                                  *)
(***************************************************************************)
Range(s) == {s[i] : i \in 1..Len(s)}

\* Go's s[i:j] (0-based, half open) on a 1-based sequence.
Slice(s, i, j) == [n \in 1..(j - i) |-> s[i + n]]

RECURSIVE Concat(_)
\* The concatenation of a sequence of sequences.
Concat(ss) == IF ss = << >> THEN << >> ELSE Head(ss) \o Concat(Tail(ss))

(***************************************************************************)
(* UTF-8.  Go decodes an ill-formed byte as RuneError (U+FFFD), one byte   *)
(* wide.  Sequences of up to three bytes are decoded (code points up to    *)
(* U+FFFF); the words of this model need no more.                          *)
(***************************************************************************)
IsCont(b) == b >= 128 /\ b <= 191

\* The width in bytes of the code point that starts at s[i] (1-based).
RuneWidth(s, i) ==
    LET b == s[i] IN
    IF b < 128 THEN 1
    ELSE IF b >= 194 /\ b <= 223 /\ i + 1 <= Len(s) /\ IsCont(s[i + 1]) THEN 2
    ELSE IF b >= 224 /\ b <= 239 /\ i + 2 <= Len(s)
            /\ IsCont(s[i + 1]) /\ IsCont(s[i + 2])
            /\ (b = 224 => s[i + 1] >= 160)
            /\ (b = 237 => s[i + 1] <= 159) THEN 3
    ELSE 1

\* The code point that starts at s[i].
RuneAt(s, i) ==
    LET b == s[i]
        w == RuneWidth(s, i) IN
    IF b < 128 THEN b
    ELSE IF w = 2 THEN (b - 192) * 64 + (s[i + 1] - 128)
    ELSE IF w = 3 THEN (b - 224) * 4096 + (s[i + 1] - 128) * 64 + (s[i + 2] - 128)
    ELSE 65533       \* utf8.RuneError

RECURSIVE RunesFrom(_, _)
RunesFrom(s, i) ==
    IF i > Len(s) THEN << >>
    ELSE <<RuneAt(s, i)>> \o RunesFrom(s, i + RuneWidth(s, i))

\* The code points of a string: what "for _, r := range s" yields.
Runes(s) == RunesFrom(s, 1)

\* string(r): the UTF-8 encoding of one code point.
EncodeRune(r) ==
    IF r < 128 THEN <<r>>
    ELSE IF r < 2048 THEN <<192 + (r \div 64), 128 + (r % 64)>>
    ELSE <<224 + (r \div 4096), 128 + ((r \div 64) % 64), 128 + (r % 64)>>

EncodeRunes(rs) == Concat([i \in 1..Len(rs) |-> EncodeRune(rs[i])])

(***************************************************************************)
(* Package unicode, restricted to the blocks the model's words come from.  *)
(***************************************************************************)
\* unicode.IsSpace
IsSpace(r) ==
    \/ r \in {9, 10, 11, 12, 13, 32, 133, 160, 5760, 8232, 8233, 8239, 8287, 12288}
    \/ (r >= 8192 /\ r <= 8202)

\* unicode.Is(unicode.Han, r)
IsHan(r) ==
    \/ (r >= 13312 /\ r <= 19903)       \* U+3400..U+4DBF
    \/ (r >= 19968 /\ r <= 40959)       \* U+4E00..U+9FFF
    \/ r \in {12293, 12295}             \* U+3005, U+3007

\* unicode.Is(unicode.Hiragana, r)
IsHiragana(r) == (r >= 12353 /\ r <= 12438) \/ (r >= 12445 /\ r <= 12447)

\* unicode.Is(unicode.Katakana, r)
IsKatakana(r) == (r >= 12449 /\ r <= 12538) \/ (r >= 12541 /\ r <= 12543)

\* unicode.Is(unicode.Hangul, r)
IsHangul(r) ==
    \/ (r >= 4352 /\ r <= 4607)         \* U+1100..U+11FF
    \/ (r >= 12593 /\ r <= 12686)       \* U+3131..U+318E
    \/ (r >= 44032 /\ r <= 55203)       \* U+AC00..U+D7A3

\* unicode.IsLetter
IsLetter(r) ==
    \/ (r >= 65 /\ r <= 90) \/ (r >= 97 /\ r <= 122)
    \/ r \in {170, 181, 186}
    \/ (r >= 192 /\ r <= 255 /\ r # 215 /\ r # 247)
    \/ (r >= 1024 /\ r <= 1153) \/ (r >= 1162 /\ r <= 1279)    \* Cyrillic
    \/ (r >= 1568 /\ r <= 1610) \/ (r >= 1646 /\ r <= 1647)    \* Arabic
    \/ (r >= 1649 /\ r <= 1747) \/ r = 1749
    \/ (r >= 1774 /\ r <= 1775) \/ (r >= 1786 /\ r <= 1788) \/ r = 1791
    \/ IsHiragana(r) \/ IsKatakana(r) \/ IsHangul(r)
    \/ (IsHan(r) /\ r # 12295)

\* unicode.ToLower
ToLowerRune(r) ==
    IF r >= 65 /\ r <= 90 THEN r + 32
    ELSE IF r >= 192 /\ r <= 222 /\ r # 215 THEN r + 32
    ELSE IF r >= 1024 /\ r <= 1039 THEN r + 80
    ELSE IF r >= 1040 /\ r <= 1071 THEN r + 32
    ELSE r

\* strings.ToLower
ToLower(s) ==
    LET rs == Runes(s) IN
    EncodeRunes([i \in 1..Len(rs) |-> ToLowerRune(rs[i])])

RECURSIVE TrimLeft(_)
TrimLeft(rs) ==
    IF rs # << >> /\ IsSpace(Head(rs)) THEN TrimLeft(Tail(rs)) ELSE rs

RECURSIVE TrimRight(_)
TrimRight(rs) ==
    IF rs # << >> /\ IsSpace(rs[Len(rs)])
    THEN TrimRight(SubSeq(rs, 1, Len(rs) - 1)) ELSE rs

\* strings.TrimSpace
TrimSpace(s) == EncodeRunes(TrimRight(TrimLeft(Runes(s))))


(***************************************************************************)
(* language.go: the language registry.                                     *)
(***************************************************************************)
English  == "en"
Persian  == "fa"
Arabic   == "ar"
French   == "fr"
Spanish  == "es"
German   == "de"
Italian  == "it"
Russian  == "ru"
Chinese  == "zh"
Japanese == "ja"
Korean   == "ko"

GetSupportedLanguages ==
    <<English, Persian, Arabic, French, Spanish, German,
      Italian, Russian, Chinese, Japanese, Korean>>

\* The Alphabet strings of GetLanguageInfo, as sets of code points.
AlphabetEnglish == 97..122
AlphabetPersian ==
    (1578..1594) \cup (1604..1608)
    \cup {1575, 1576, 1601, 1602, 1662, 1670, 1688, 1705, 1711, 1740}
AlphabetArabic == (1578..1594) \cup (1601..1608) \cup {1575, 1576, 1610}
AlphabetFrench ==
    (97..122) \cup (231..235)
    \cup {224, 226, 228, 238, 239, 244, 246, 249, 251, 252, 255}
AlphabetSpanish == (97..122) \cup {225, 233, 237, 241, 243, 250, 252}
AlphabetGerman == (97..122) \cup {223, 228, 246, 252}
AlphabetItalian ==
    (97..122) \cup (236..238) \cup {224, 232, 233, 242, 243, 249, 250}
AlphabetRussian == (1072..1103) \cup {1105}
AlphabetJapanese ==
    (12394..12399) \cup (12414..12418) \cup (12424..12429)
    \cup {12354, 12356, 12358, 12360, 12362, 12363, 12365, 12367, 12369,
          12371, 12373, 12375, 12377, 12379, 12381, 12383, 12385, 12388,
          12390, 12392, 12402, 12405, 12408, 12411, 12420, 12422, 12431,
          12434, 12435}
AlphabetKorean ==
    (12618..12623)
    \cup {12593, 12596, 12599, 12601, 12609, 12610, 12613, 12615, 12616,
          12625, 12627, 12629, 12631, 12635, 12636, 12640, 12641, 12643}

LangInfo(code, name, dir, alphabet, norm) ==
    [Code |-> code, Name |-> name, Direction |-> dir, Alphabet |-> alphabet,
     IsRTL |-> (dir = "rtl"), Normalizer |-> norm]

\* GetLanguageInfo with a default case of its own: a code that is none of the
\* eleven gets a profile whose normalizer only trims.
GetLanguageInfoOwnDefault(lang) ==
    CASE lang = English  -> LangInfo(English, "English", "ltr", AlphabetEnglish, "normalizeEnglish")
      [] lang = Persian  -> LangInfo(Persian, "Persian", "rtl", AlphabetPersian, "normalizePersian")
      [] lang = Arabic   -> LangInfo(Arabic, "Arabic", "rtl", AlphabetArabic, "normalizeArabic")
      [] lang = French   -> LangInfo(French, "French", "ltr", AlphabetFrench, "normalizeFrench")
      [] lang = Spanish  -> LangInfo(Spanish, "Spanish", "ltr", AlphabetSpanish, "normalizeSpanish")
      [] lang = German   -> LangInfo(German, "German", "ltr", AlphabetGerman, "normalizeGerman")
      [] lang = Italian  -> LangInfo(Italian, "Italian", "ltr", AlphabetItalian, "normalizeItalian")
      [] lang = Russian  -> LangInfo(Russian, "Russian", "ltr", AlphabetRussian, "normalizeRussian")
      [] lang = Chinese  -> LangInfo(Chinese, "Chinese", "ltr", {}, "normalizeChinese")
      [] lang = Japanese -> LangInfo(Japanese, "Japanese", "ltr", AlphabetJapanese, "normalizeJapanese")
      [] lang = Korean   -> LangInfo(Korean, "Korean", "ltr", AlphabetKorean, "normalizeKorean")
      [] OTHER           -> LangInfo(lang, "", "ltr", AlphabetEnglish, "normalizeChinese")

\* GetLanguageInfo; Normalizer names the normalize function of the profile.
GetLanguageInfo(lang) ==
    CASE lang = English  -> LangInfo(English, "English", "ltr", AlphabetEnglish, "normalizeEnglish")
      [] lang = Persian  -> LangInfo(Persian, "Persian", "rtl", AlphabetPersian, "normalizePersian")
      [] lang = Arabic   -> LangInfo(Arabic, "Arabic", "rtl", AlphabetArabic, "normalizeArabic")
      [] lang = French   -> LangInfo(French, "French", "ltr", AlphabetFrench, "normalizeFrench")
      [] lang = Spanish  -> LangInfo(Spanish, "Spanish", "ltr", AlphabetSpanish, "normalizeSpanish")
      [] lang = German   -> LangInfo(German, "German", "ltr", AlphabetGerman, "normalizeGerman")
      [] lang = Italian  -> LangInfo(Italian, "Italian", "ltr", AlphabetItalian, "normalizeItalian")
      [] lang = Russian  -> LangInfo(Russian, "Russian", "ltr", AlphabetRussian, "normalizeRussian")
      [] lang = Chinese  -> LangInfo(Chinese, "Chinese", "ltr", {}, "normalizeChinese")
      [] lang = Japanese -> LangInfo(Japanese, "Japanese", "ltr", AlphabetJapanese, "normalizeJapanese")
      [] lang = Korean   -> LangInfo(Korean, "Korean", "ltr", AlphabetKorean, "normalizeKorean")
      [] OTHER           -> LangInfo(English, "English", "ltr", AlphabetEnglish, "normalizeEnglish")

\* normalizeEnglish, and the other lower-casing normalizers.
normalizeEnglish(word) == ToLower(TrimSpace(word))

\* The ten strings.ReplaceAll calls of normalizePersian on one byte: an ASCII
\* digit becomes the Persian digit U+06F0 + d.
PersianDigit(b) == IF b >= 48 /\ b <= 57 THEN EncodeRune(1776 + (b - 48)) ELSE <<b>>

normalizePersian(word) ==
    LET t == TrimSpace(word) IN Concat([i \in 1..Len(t) |-> PersianDigit(t[i])])

\* normalizeArabic, normalizeChinese, normalizeJapanese, normalizeKorean.
normalizeArabic(word) == TrimSpace(word)

\* langInfo.Normalizer(word)
Normalize(info, word) ==
    CASE info.Normalizer \in {"normalizeEnglish", "normalizeFrench", "normalizeSpanish",
                              "normalizeGerman", "normalizeItalian", "normalizeRussian"}
            -> normalizeEnglish(word)
      [] info.Normalizer = "normalizePersian" -> normalizePersian(word)
      [] OTHER -> normalizeArabic(word)

InRange(r, lo, hi) == r >= lo /\ r <= hi

\* The first loop of DetectLanguage: an Arabic-script code point.
IsArabicScript(r) ==
    \/ InRange(r, 1536, 1791)       \* U+0600..U+06FF
    \/ InRange(r, 1872, 1919)       \* U+0750..U+077F
    \/ InRange(r, 2208, 2303)       \* U+08A0..U+08FF
    \/ InRange(r, 64336, 65023)     \* U+FB50..U+FDFF
    \/ InRange(r, 65136, 65279)     \* U+FE70..U+FEFF

\* Detection by the script of the first code point alone.
DetectLanguageByFirstRune(word) ==
    LET rs == Runes(word) IN
    IF Len(rs) = 0 THEN English
    ELSE IF IsArabicScript(rs[1]) THEN Persian
    ELSE IF InRange(rs[1], 1024, 1279) THEN Russian
    ELSE IF InRange(rs[1], 19968, 40959) THEN Chinese
    ELSE IF InRange(rs[1], 12352, 12447) THEN Japanese
    ELSE IF InRange(rs[1], 44032, 55215) THEN Korean
    ELSE English

DetectLanguage(word) ==
    LET rs == Range(Runes(word)) IN
    IF Len(word) = 0 THEN English
    ELSE IF \E r \in rs : IsArabicScript(r) THEN Persian
    ELSE IF \E r \in rs : InRange(r, 1024, 1279) THEN Russian      \* U+0400..U+04FF
    ELSE IF \E r \in rs : InRange(r, 19968, 40959) THEN Chinese    \* U+4E00..U+9FFF
    ELSE IF \E r \in rs : InRange(r, 12352, 12447) THEN Japanese   \* U+3040..U+309F
    ELSE IF \E r \in rs : InRange(r, 44032, 55215) THEN Korean     \* U+AC00..U+D7AF
    ELSE English

IsValidWordForLanguage(word, lang) ==
    LET langInfo == GetLanguageInfo(lang)
        rs == Range(Runes(word)) IN
    IF Len(word) = 0 THEN FALSE
    ELSE IF langInfo.Alphabet = {} /\ lang = Chinese
        THEN \A r \in rs : IsHan(r) \/ IsLetter(r)
    ELSE IF langInfo.Alphabet = {} /\ lang = Japanese
        THEN \A r \in rs : IsHiragana(r) \/ IsKatakana(r) \/ IsHan(r) \/ IsLetter(r)
    ELSE IF langInfo.Alphabet = {} /\ lang = Korean
        THEN \A r \in rs : IsHangul(r) \/ IsLetter(r)
    ELSE \A r \in rs : r \in langInfo.Alphabet \/ IsSpace(r)


(***************************************************************************)
(* levenshtein.go                                                          *)
(***************************************************************************)
\* The minimum of the first two arguments only.
minOfTwo(a, b, c) == IF a < b THEN a ELSE b

\* min: the minimum of three integers, as the code computes it.
min(a, b, c) ==
    IF a < b /\ a < c THEN a
    ELSE IF b < c THEN b
    ELSE c

\* max: the maximum of two integers.
max(a, b) == IF a > b THEN a ELSE b

RECURSIVE LevRow(_, _, _, _)
\* Row i of the matrix from row i-1 (prev), filled left to right; cur holds
\* matrix[i][0..j-1] and matrix[i][j] is appended.
LevRow(prev, c, s2, cur) ==
    LET j == Len(cur) IN
    IF j > Len(s2) THEN cur
    ELSE LET cost == IF c # s2[j] THEN 1 ELSE 0 IN
         LevRow(prev, c, s2,
                Append(cur, min(prev[j + 1] + 1,     \* deletion
                                cur[j] + 1,          \* insertion
                                prev[j] + cost)))    \* substitution

RECURSIVE LevRows(_, _, _, _)
LevRows(s1, s2, i, prev) ==
    IF i > Len(s1) THEN prev
    ELSE LevRows(s1, s2, i + 1, LevRow(prev, s1[i], s2, <<i>>))

\* LevenshteinDistance, over bytes.
LevenshteinDistance(s1, s2) ==
    IF Len(s1) = 0 THEN Len(s2)
    ELSE IF Len(s2) = 0 THEN Len(s1)
    ELSE LevRows(s1, s2, 1, [j \in 1..(Len(s2) + 1) |-> j - 1])[Len(s2) + 1]

\* A similarity score is the float64 1.0 - distance/maxLen.  It is kept as the
\* exact fraction num/den (den > 0); for the small integers of this model the
\* float64 operations order two scores exactly as the fractions are ordered.
Score(num, den) == [num |-> num, den |-> den]

SimGreater(a, b) == a.num * b.den > b.num * a.den
SimGeq(a, b) == a.num * b.den >= b.num * a.den
SimEq(a, b) == a.num * b.den = b.num * a.den

\* The distance divided by the length of the first string instead of the longer.
CalculateSimilarityByFirst(s1, s2) ==
    IF s1 = s2 THEN Score(1, 1)
    ELSE IF max(Len(s1), Len(s2)) = 0 THEN Score(1, 1)
    ELSE IF Len(s1) = 0 THEN Score(0, 1)
    ELSE Score(Len(s1) - LevenshteinDistance(s1, s2), Len(s1))

CalculateSimilarity(s1, s2) ==
    LET maxLen == max(Len(s1), Len(s2)) IN
    IF s1 = s2 THEN Score(1, 1)
    ELSE IF maxLen = 0 THEN Score(1, 1)
    ELSE Score(maxLen - LevenshteinDistance(s1, s2), maxLen)

(***************************************************************************)
(* hash/fnv: the 64-bit FNV-1a hash behind each BloomFilter hash function. *)
(* A uint64 is kept as four limbs, least significant first: three of 20    *)
(* bits and one of 4 bits, so that no product leaves 31 bits.              *)
(***************************************************************************)
Limb == 2^20

RECURSIVE Xor(_, _, _)
\* The bitwise exclusive or of a and b, both below 2^n.
Xor(a, b, n) ==
    IF n = 0 THEN 0
    ELSE ((a + b) % 2) + 2 * Xor(a \div 2, b \div 2, n - 1)

\* offset64 = 14695981039346656037 = 0xcbf29ce484222325
FnvOffset64 == <<140069, 936002, 783004, 12>>

\* h * prime64 mod 2^64, with prime64 = 1099511628211 = 2^40 + 435.
FnvMulPrime(h) ==
    LET p1 == h[1] * 435
        p2 == h[2] * 435 + (p1 \div Limb)
        p3 == h[3] * 435 + (p2 \div Limb) + h[1]
        p4 == h[4] * 435 + (p3 \div Limb) + h[2]
    IN  <<p1 % Limb, p2 % Limb, p3 % Limb, p4 % 16>>

\* One byte of sum64a.Write: hash ^= c; hash *= prime64.
FnvStep(h, c) ==
    FnvMulPrime(<<(h[1] - (h[1] % 256)) + Xor(h[1] % 256, c, 8), h[2], h[3], h[4]>>)

RECURSIVE FnvWrite(_, _)
\* sum64a.Write(data)
FnvWrite(h, data) ==
    IF data = << >> THEN h ELSE FnvWrite(FnvStep(h, Head(data)), Tail(data))

\* (r * 2^20 + limb) % m, in two steps of ten bits so that nothing overflows.
ModShift(r, limb, m) == (((((r * 1024) % m) * 1024) % m) + limb) % m

\* hash % m for m > 0.
FnvMod(h, m) == ModShift(ModShift(ModShift(h[4] % m, h[3], m), h[2], m), h[1], m)


(***************************************************************************)
(* bloom_filter.go: BloomFilter.  bitArray is kept as the set of the       *)
(* indices whose bit is set.  Every use of hashFuncs[i] starts with Reset, *)
(* so in a sequential run a probe is a function of the item and i alone;   *)
(* the steps on the shared hash objects are taken one by one in the        *)
(* concurrent readers further down.                                        *)
(***************************************************************************)
NewBloomFilter(size, numHashFuncs) ==
    [bitArray |-> {}, size |-> size, numHashFuncs |-> numHashFuncs]

\* Reset, Write(item), Write({byte(i)}), Sum64 on hashFuncs[i].
Sum64(item, i) == FnvWrite(FnvWrite(FnvOffset64, item), <<i % 256>>)

\* index := hash % uint64(bf.size)
ProbeIndex(bf, item, i) == FnvMod(Sum64(item, i), bf.size)

\* hash % 0 is a run-time panic (integer divide by zero); it is reached as
\* soon as the loop body runs once.
ProbePanics(bf) == bf.numHashFuncs > 0 /\ bf.size = 0

Probes(bf, item) == {ProbeIndex(bf, item, i) : i \in 0..(bf.numHashFuncs - 1)}

\* Add with a loop that stops one hash function short.
BloomAddOneShort(bf, item) ==
    [bf EXCEPT !.bitArray =
        @ \cup {ProbeIndex(bf, item, i) : i \in 0..(bf.numHashFuncs - 2)}]

\* BloomFilter.Add (when it does not panic)
BloomAdd(bf, item) == [bf EXCEPT !.bitArray = @ \cup Probes(bf, item)]

\* BloomFilter.Contains (when it does not panic)
BloomContains(bf, item) ==
    \A i \in 0..(bf.numHashFuncs - 1) : ProbeIndex(bf, item, i) \in bf.bitArray

RECURSIVE BloomAddWords(_, _)
\* BloomFilter.AddWords
BloomAddWords(bf, words) ==
    IF words = << >> THEN bf
    ELSE BloomAddWords(BloomAdd(bf, Head(words)), Tail(words))

(***************************************************************************)
(* bloom_filter.go: CandidateGenerator.  The candidates of a word are      *)
(* collected in a map used as a set, and returned in map order: a set.     *)
(***************************************************************************)
\* NewCandidateGenerator: alphabet "abcdefghijklmnopqrstuvwxyz"
GeneratorAlphabet == 97..122

Deletions(word) ==
    {Slice(word, 0, i) \o Slice(word, i + 1, Len(word)) : i \in 0..(Len(word) - 1)}

Insertions(word) ==
    {Slice(word, 0, i) \o <<c>> \o Slice(word, i, Len(word)) :
        i \in 0..Len(word), c \in GeneratorAlphabet}

Substitutions(word) ==
    UNION {{Slice(word, 0, i) \o <<c>> \o Slice(word, i + 1, Len(word)) :
                c \in GeneratorAlphabet \ {word[i + 1]}} :
           i \in 0..(Len(word) - 1)}

\* string(word[i+1]) is the UTF-8 encoding of the code point of that value:
\* two bytes when the byte is not ASCII.
Transpositions(word) ==
    {Slice(word, 0, i) \o EncodeRune(word[i + 2]) \o EncodeRune(word[i + 1])
        \o Slice(word, i + 2, Len(word)) :
        i \in 0..(Len(word) - 2)}

\* One pass of the four loops of generateCandidatesAtDistance.
Edits(word) ==
    Deletions(word) \cup Insertions(word) \cup Substitutions(word) \cup Transpositions(word)

RECURSIVE generateCandidatesAtDistance(_, _)
generateCandidatesAtDistance(word, distance) ==
    IF distance = 0 THEN {word}
    ELSE IF distance = 1 THEN Edits(word)
    ELSE UNION {generateCandidatesAtDistance(e, distance - 1) : e \in Edits(word)}

GenerateCandidates(word, maxDistance) ==
    UNION {generateCandidatesAtDistance(ToLower(word), d) : d \in 1..maxDistance}

\* The QWERTY neighbours of GenerateCommonTypos, by byte.
Keyboard ==
    113 :> {119, 97} @@
    119 :> {113, 101, 97, 115} @@
    101 :> {119, 114, 115, 100} @@
    114 :> {101, 116, 100, 102} @@
    116 :> {114, 121, 102, 103} @@
    121 :> {116, 117, 103, 104} @@
    117 :> {121, 105, 104, 106} @@
    105 :> {117, 111, 106, 107} @@
    111 :> {105, 112, 107, 108} @@
    112 :> {111, 108} @@
    97 :> {113, 119, 115, 122} @@
    115 :> {97, 119, 101, 100, 120, 122} @@
    100 :> {115, 101, 114, 102, 99, 120} @@
    102 :> {100, 114, 116, 103, 118, 99} @@
    103 :> {102, 116, 121, 104, 98, 118} @@
    104 :> {103, 121, 117, 106, 110, 98} @@
    106 :> {104, 117, 105, 107, 109, 110} @@
    107 :> {106, 105, 111, 108, 109} @@
    108 :> {107, 111, 112} @@
    122 :> {97, 115, 120} @@
    120 :> {122, 115, 100, 99} @@
    99 :> {120, 100, 102, 118} @@
    118 :> {99, 102, 103, 98} @@
    98 :> {118, 103, 104, 110} @@
    110 :> {98, 104, 106, 109} @@
    109 :> {110, 106, 107}

\* "for i, char := range word": a key of the keyboard map is one ASCII byte,
\* which in UTF-8 is never part of a longer code point.
GenerateCommonTypos(word) ==
    LET w == ToLower(word) IN
    UNION {{Slice(w, 0, i) \o <<n>> \o Slice(w, i + 1, Len(w)) : n \in Keyboard[w[i + 1]]} :
           i \in {j \in 0..(Len(w) - 1) : w[j + 1] \in DOMAIN Keyboard}}

\* IsValidWord
IsValidWord(word) ==
    Len(word) # 0 /\ \A r \in Range(Runes(word)) : IsLetter(r)


(***************************************************************************)
(* The words of the model, as UTF-8 bytes.                                 *)
(***************************************************************************)
W_empty == << >>
W_go == <<103, 111>>    \* "go"
W_do == <<100, 111>>    \* "do"
W_dog == <<100, 111, 103>>    \* "dog"
W_god == <<103, 111, 100>>    \* "god"
W_good == <<103, 111, 111, 100>>    \* "good"
W_God_sp == <<32, 71, 111, 100>>    \* " God"
W_Go == <<71, 111>>    \* "Go"
W_g0 == <<103, 48>>    \* "g0"
W_gd == <<103, 100>>    \* "gd"
W_fo == <<102, 111>>    \* "fo"
W_gad == <<103, 97, 100>>    \* "gad"
W_uxi == <<117, 120, 105>>    \* "uxi"
W_hello == <<104, 101, 108, 108, 111>>    \* "hello"
W_world == <<119, 111, 114, 108, 100>>    \* "world"
W_test == <<116, 101, 115, 116>>    \* "test"
W_salam == <<216, 179, 217, 132, 216, 167, 217, 133>>    \* U+0633 U+0644 U+0627 U+0645
W_donya == <<216, 175, 217, 134, 219, 140, 216, 167>>    \* U+062F U+0646 U+06CC U+0627
W_tst == <<216, 170, 216, 179, 216, 170>>    \* U+062A U+0633 U+062A
W_sin == <<216, 179>>    \* U+0633
W_mim == <<217, 133>>    \* U+0645
W_sa == <<216, 179, 216, 167>>    \* U+0633 U+0627
W_as == <<216, 167, 216, 179>>    \* U+0627 U+0633
W_ete == <<195, 169, 116, 195, 169>>    \* U+00E9 U+0074 U+00E9
W_Da == <<208, 148, 208, 176>>    \* U+0414 U+0430
W_neko == <<227, 129, 173, 227, 129, 147>>    \* U+306D U+3053
W_cat == <<231, 140, 171>>    \* U+732B
W_ga == <<227, 132, 177, 227, 133, 143>>    \* U+3131 U+314F
W_han == <<237, 149, 156>>    \* U+D55C

(***************************************************************************)
(* did_you_mean.go: the checker.                                           *)
(*   bloomFilters, dictionaries : the two maps of DidYouMean, keyed by     *)
(*       language; a language without an entry maps to nil.  The filter's  *)
(*       hash objects hold no information between calls and are left out.  *)
(*   currentLang  : the active language.                                   *)
(*   newArgs      : the arguments NewDidYouMean was called with.           *)
(*   ret          : the call that has just returned, with its arguments    *)
(*                  and its result, or NoCall.                             *)
(*   nAdds        : the number of bulk-add calls so far.                   *)
(***************************************************************************)
VARIABLES bloomFilters, dictionaries, currentLang, newArgs, ret, nAdds

dymVars == <<bloomFilters, dictionaries, currentLang, newArgs, nAdds>>

(***************************************************************************)
(* A BloomFilter used on its own, through its public methods:              *)
(*   bloom     : the filter (bitArray, size, numHashFuncs), or NoFilter    *)
(*   bfAdded   : the items whose Add has returned                          *)
(*   panicked  : a call has ended in a run-time panic                      *)
(*   hashFuncs : the state of the filter's hash objects, by index          *)
(*   readers   : the goroutines that call Contains on the filter, each     *)
(*               with its place in the method and its local variables      *)
(***************************************************************************)
VARIABLES bloom, bfAdded, panicked, hashFuncs, readers

bloomVars == <<bloom, bfAdded, panicked>>
readerVars == <<hashFuncs, readers>>

vars == <<bloomFilters, dictionaries, currentLang, newArgs, ret, nAdds,
          bloom, bfAdded, panicked, hashFuncs, readers>>

NoFilter == [size |-> 0, numHashFuncs |-> 0, bitArray |-> {}]

\* No filter is in use on its own.
NoBloom ==
    /\ bloom = NoFilter /\ bfAdded = {} /\ panicked = FALSE
    /\ hashFuncs = << >> /\ readers = << >>

NoCall == [op |-> "none"]

\* The sizes AddWordsForLanguage passes to NewBloomFilter.
FilterSize == 10000
FilterHashFuncs == 7

\* dym.bloomFilters[lang] == nil || dym.dictionaries[lang] == nil
Uninitialized(bfs, dicts, lang) == lang \notin DOMAIN bfs \/ lang \notin DOMAIN dicts

RECURSIVE AddLoopUnchecked(_, _, _, _)
\* The loop without the test of IsValidWordForLanguage.
AddLoopUnchecked(pair, words, langInfo, lang) ==
    IF words = << >> THEN pair
    ELSE LET normalized == Normalize(langInfo, Head(words))
         IN  AddLoopUnchecked(<<BloomAdd(pair[1], normalized), pair[2] \cup {normalized}>>,
                              Tail(words), langInfo, lang)

RECURSIVE AddLoopRawFilter(_, _, _, _)
\* The loop with the word as given added to the filter, and its normal form
\* to the dictionary.
AddLoopRawFilter(pair, words, langInfo, lang) ==
    IF words = << >> THEN pair
    ELSE LET normalized == Normalize(langInfo, Head(words))
             next == IF IsValidWordForLanguage(normalized, lang)
                     THEN <<BloomAdd(pair[1], Head(words)), pair[2] \cup {normalized}>>
                     ELSE pair
         IN  AddLoopRawFilter(next, Tail(words), langInfo, lang)

RECURSIVE AddLoopRawKey(_, _, _, _)
\* The loop with the dictionary keyed by the word as given instead of by its
\* normal form.
AddLoopRawKey(pair, words, langInfo, lang) ==
    IF words = << >> THEN pair
    ELSE LET normalized == Normalize(langInfo, Head(words))
             next == IF IsValidWordForLanguage(normalized, lang)
                     THEN <<BloomAdd(pair[1], normalized), pair[2] \cup {Head(words)}>>
                     ELSE pair
         IN  AddLoopRawKey(next, Tail(words), langInfo, lang)

RECURSIVE AddLoop(_, _, _, _)
\* The loop of AddWordsForLanguage over a pair <<filter, dictionary>>.
AddLoop(pair, words, langInfo, lang) ==
    IF words = << >> THEN pair
    ELSE LET normalized == Normalize(langInfo, Head(words))
             next == IF IsValidWordForLanguage(normalized, lang)
                     THEN <<BloomAdd(pair[1], normalized), pair[2] \cup {normalized}>>
                     ELSE pair
         IN  AddLoop(next, Tail(words), langInfo, lang)

\* AddWordsForLanguage without the nil test: a new pair at every call.
AddedPairFresh(bfs, dicts, words, lang) ==
    AddLoop(<<NewBloomFilter(FilterSize, FilterHashFuncs), {}>>, words,
            GetLanguageInfo(lang), lang)

\* The pair of lang after AddWordsForLanguage(words, lang).
AddedPair(bfs, dicts, words, lang) ==
    LET start == IF lang \notin DOMAIN bfs
                 THEN <<NewBloomFilter(FilterSize, FilterHashFuncs), {}>>
                 ELSE <<bfs[lang], dicts[lang]>>
    IN  AddLoop(start, words, GetLanguageInfo(lang), lang)

\* One filter and one dictionary shared by all the languages: the value is
\* stored under every key.
MapPutShared(m, k, v) == [x \in DOMAIN m \cup {k} |-> v]

\* m[k] = v on a Go map.
MapPut(m, k, v) == [x \in DOMAIN m \cup {k} |-> IF x = k THEN v ELSE m[x]]

\* IsCorrectForLanguage trusting the filter alone.
IsCorrectFilterOnly(bfs, dicts, word, lang) ==
    IF Uninitialized(bfs, dicts, lang) THEN FALSE
    ELSE BloomContains(bfs[lang], Normalize(GetLanguageInfo(lang), word))

\* IsCorrectForLanguage falling back to English for a language without a pair.
IsCorrectWithFallback(bfs, dicts, word, lang) ==
    LET used == IF Uninitialized(bfs, dicts, lang) THEN English ELSE lang IN
    IF Uninitialized(bfs, dicts, used) THEN FALSE
    ELSE LET normalized == Normalize(GetLanguageInfo(used), word) IN
         BloomContains(bfs[used], normalized) /\ normalized \in dicts[used]

IsCorrectForLanguage(bfs, dicts, word, lang) ==
    IF Uninitialized(bfs, dicts, lang) THEN FALSE
    ELSE LET normalized == Normalize(GetLanguageInfo(lang), word) IN
         BloomContains(bfs[lang], normalized) /\ normalized \in dicts[lang]


(***************************************************************************)
(* GetSuggestionsForLanguage.  The candidate slice is the edit-distance    *)
(* candidates followed by the keyboard candidates, each in map order, and  *)
(* sort.Slice is not stable: the call may return any ordering of the       *)
(* scored candidates that is sorted by the less function.  The operator is *)
(* the set of the lists the call may return.                               *)
(***************************************************************************)
Suggestion(word, similarity) == [Word |-> word, Similarity |-> similarity]

\* The candidates the table below holds; any other is computed on demand.
CandidateKeys ==
    {<<w, d>> : w \in {W_gd, W_fo, W_go, W_god, W_gad, W_sin, W_sa}, d \in 0..2}

CandidateTable == [k \in CandidateKeys |-> GenerateCandidates(k[1], k[2])]

\* dym.candidates.GenerateCandidates(normalized, maxEditDistance)
Candidates(word, maxDistance) ==
    IF <<word, maxDistance>> \in CandidateKeys
    THEN CandidateTable[<<word, maxDistance>>]
    ELSE GenerateCandidates(word, maxDistance)

\* The filter loop without the look-up in the dictionary.
ValidCandidatesFilterOnly(bf, dict, candidates) ==
    {c \in candidates : BloomContains(bf, c)}

\* The filter loop over one of the two candidate slices: the candidates that
\* are in the filter and in the dictionary.
ValidCandidates(bf, dict, candidates) ==
    {c \in dict \cap candidates : BloomContains(bf, c)}

\* The entries of the suggestions slice before it is sorted; the second
\* component tells the two candidate slices apart, so that a candidate of
\* both is there twice.
ScoredCandidates(bf, dict, normalized, maxEditDistance) ==
    LET score(c) == Suggestion(c, CalculateSimilarity(normalized, c)) IN
    {<<score(c), 1>> : c \in ValidCandidates(bf, dict, Candidates(normalized, maxEditDistance))}
    \cup
    {<<score(c), 2>> : c \in ValidCandidates(bf, dict, GenerateCommonTypos(normalized))}

RECURSIVE AnyOrders(_)
\* The entries in any order: the slice without the call of sort.Slice.
AnyOrders(entries) ==
    IF entries = {} THEN {<< >>}
    ELSE UNION {{<<e[1]>> \o rest : rest \in AnyOrders(entries \ {e})} : e \in entries}

RECURSIVE SortedOrders(_)
\* sort.Slice with less(i, j) = Similarity[i] > Similarity[j]: every ordering
\* of the entries in which no entry precedes one of greater similarity.
SortedOrders(entries) ==
    IF entries = {} THEN {<< >>}
    ELSE UNION {{<<e[1]>> \o rest : rest \in SortedOrders(entries \ {e})} :
                e \in {x \in entries :
                         \A y \in entries : ~SimGreater(y[1].Similarity, x[1].Similarity)}}

\* suggestions[:maxSuggestions] when len(suggestions) > maxSuggestions
Truncate(suggestions, maxSuggestions) ==
    IF Len(suggestions) > maxSuggestions
    THEN SubSeq(suggestions, 1, maxSuggestions)
    ELSE suggestions

\* GetSuggestionsForLanguage without the early return of a correct word.
GetSuggestionsAlwaysGenerated(bfs, dicts, word, maxSuggestions, maxEditDistance, lang) ==
    IF Uninitialized(bfs, dicts, lang) THEN {<< >>}
    ELSE LET normalized == Normalize(GetLanguageInfo(lang), word) IN
         IF ~IsValidWordForLanguage(normalized, lang) THEN {<< >>}
         ELSE {Truncate(sorted, maxSuggestions) :
                 sorted \in SortedOrders(ScoredCandidates(bfs[lang], dicts[lang],
                                                          normalized, maxEditDistance))}

GetSuggestionsForLanguage(bfs, dicts, word, maxSuggestions, maxEditDistance, lang) ==
    IF Uninitialized(bfs, dicts, lang) THEN {<< >>}
    ELSE LET normalized == Normalize(GetLanguageInfo(lang), word) IN
         IF ~IsValidWordForLanguage(normalized, lang) THEN {<< >>}
         ELSE IF IsCorrectForLanguage(bfs, dicts, normalized, lang)
              THEN {<<Suggestion(normalized, Score(1, 1))>>}
         ELSE {Truncate(sorted, maxSuggestions) :
                 sorted \in SortedOrders(ScoredCandidates(bfs[lang], dicts[lang],
                                                          normalized, maxEditDistance))}


\* SuggestForLanguage falling back to the normal form of the word.
SuggestForLanguageNormalized(bfs, dicts, word, lang) ==
    {IF Len(suggestions) > 0 THEN suggestions[1].Word
                             ELSE Normalize(GetLanguageInfo(lang), word) :
        suggestions \in GetSuggestionsForLanguage(bfs, dicts, word, 1, 2, lang)}

\* SuggestForLanguage: the best suggestion, or the word as it was given.
SuggestForLanguage(bfs, dicts, word, lang) ==
    {IF Len(suggestions) > 0 THEN suggestions[1].Word ELSE word :
        suggestions \in GetSuggestionsForLanguage(bfs, dicts, word, 1, 2, lang)}

\* The loop of GetSuggestionsWithThreshold keeping only the suggestions
\* strictly above the threshold.
SelectSuggestionsAbove(suggestions, threshold) ==
    SelectSeq(suggestions, LAMBDA x : SimGreater(x.Similarity, threshold))

\* The loop of GetSuggestionsWithThreshold: the suggestions at or above the
\* threshold, in order.
SelectSuggestions(suggestions, threshold) ==
    SelectSeq(suggestions, LAMBDA x : SimGeq(x.Similarity, threshold))

\* GetSuggestionsWithThreshold, on the active language cur.
GetSuggestionsWithThreshold(bfs, dicts, cur, word, threshold, maxSuggestions) ==
    {Truncate(SelectSuggestions(allSuggestions, threshold), maxSuggestions) :
        allSuggestions \in GetSuggestionsForLanguage(bfs, dicts, word,
                                                     maxSuggestions * 2, 2, cur)}

\* CheckAndSuggestForLanguage: the pairs <<correct, suggestions>> it may return.
CheckAndSuggestForLanguage(bfs, dicts, word, lang) ==
    IF IsCorrectForLanguage(bfs, dicts, word, lang) THEN {<<TRUE, << >> >>}
    ELSE {<<FALSE, suggestions>> :
            suggestions \in GetSuggestionsForLanguage(bfs, dicts, word, 5, 2, lang)}

\* GetWordsForLanguage: the default word list of a language.
GetWordsForLanguage(lang) ==
    CASE lang = English -> <<W_hello, W_world, W_test>>
      [] lang = Persian -> <<W_salam, W_donya, W_tst>>
      [] OTHER -> << >>

(***************************************************************************)
(* The inputs of the operations.                                           *)
(***************************************************************************)
MaxAdds == 2

Unknown == "xx"     \* a code that is none of the eleven

Languages ==
    {English, Persian, Arabic, French, Russian, Japanese, Korean, Unknown}

\* The arguments of AddWordsForLanguage.
AddInputs ==
    { <<<<W_go, W_do, W_dog>>, English>>,
      <<<<W_God_sp, W_good, W_g0, W_empty>>, English>>,
      <<<<W_uxi>>, English>>,
      <<<<W_salam, W_go, W_mim, W_as>>, Persian>>,
      <<<<W_salam>>, Arabic>>,
      <<<<W_ete, W_go>>, French>>,
      <<<<W_Da>>, Russian>>,
      <<<<W_neko, W_cat>>, Japanese>>,
      <<<<W_ga, W_han>>, Korean>>,
      <<<<W_Go>>, Unknown>> }

\* The arguments of AddWords, SetLanguage and LoadDefaultDictionary.
AddWordsInputs == { <<W_salam, W_go, W_do>> }
SetLanguageInputs == {English, Persian}
LoadInputs == {English, Persian}

\* The words that are looked up.
QueryWords ==
    {W_go, W_God_sp, W_gd, W_fo, W_gad, W_g0, W_empty, W_salam, W_sin,
     W_ete, W_Da, W_neko, W_ga, W_han}

\* The <<word, language>> arguments of the ...ForLanguage queries.
QueryInputs ==
    {<<w, English>> : w \in {W_go, W_God_sp, W_gd, W_fo, W_gad, W_g0, W_empty, W_salam}}
    \cup {<<w, Persian>> : w \in {W_salam, W_sin, W_go, W_sa}}
    \cup {<<W_salam, Arabic>>, <<W_ete, French>>, <<W_go, French>>,
          <<W_Da, Russian>>, <<W_neko, Japanese>>, <<W_go, Japanese>>,
          <<W_ga, Korean>>, <<W_han, Korean>>, <<W_go, Unknown>>, <<W_gd, Unknown>>}

\* The <<maxSuggestions, maxEditDistance>> arguments.
CountDistanceInputs == {<<0, 2>>, <<1, 1>>, <<2, 2>>, <<3, 0>>, <<2, 1>>}

\* The <<threshold, maxSuggestions>> arguments of GetSuggestionsWithThreshold.
ThresholdInputs == {<<Score(1, 2), 1>>, <<Score(0, 1), 2>>, <<Score(1, 1), 0>>}

\* The arguments of NewDidYouMean: those of the tests and of the README.
NewInputs ==
    { [dictionarySize |-> 10000, numHashFuncs |-> 7],
      [dictionarySize |-> 1000, numHashFuncs |-> 5] }


(***************************************************************************)
(* The operations of DidYouMean.  A call is one step: it changes the       *)
(* checker and leaves the call and its result in ret; Return hands the     *)
(* result to the caller, after which the next call may start.              *)
(***************************************************************************)
Init ==
    /\ bloomFilters = << >>
    /\ dictionaries = << >>
    /\ currentLang = English
    /\ newArgs \in NewInputs
    /\ ret = NoCall
    /\ nAdds = 0
    /\ NoBloom

\* The effect of AddWordsForLanguage(words, lang) on the two maps.
AddEffect(words, lang) ==
    LET pair == AddedPair(bloomFilters, dictionaries, words, lang) IN
    /\ bloomFilters' = MapPut(bloomFilters, lang, pair[1])
    /\ dictionaries' = MapPut(dictionaries, lang, pair[2])
    /\ UNCHANGED <<bloomVars, readerVars>>

AddWordsForLanguageCall(words, lang) ==
    /\ ret = NoCall /\ nAdds < MaxAdds
    /\ AddEffect(words, lang)
    /\ ret' = [op |-> "AddWordsForLanguage", words |-> words, lang |-> lang]
    /\ nAdds' = nAdds + 1
    /\ UNCHANGED <<currentLang, newArgs>>

AddWordsCall(words) ==
    /\ ret = NoCall /\ nAdds < MaxAdds
    /\ AddEffect(words, currentLang)
    /\ ret' = [op |-> "AddWords", words |-> words, lang |-> currentLang]
    /\ nAdds' = nAdds + 1
    /\ UNCHANGED <<currentLang, newArgs>>

LoadDefaultDictionaryCall(lang) ==
    /\ ret = NoCall /\ nAdds < MaxAdds
    /\ AddEffect(GetWordsForLanguage(lang), lang)
    /\ ret' = [op |-> "LoadDefaultDictionary", words |-> GetWordsForLanguage(lang),
               lang |-> lang]
    /\ nAdds' = nAdds + 1
    /\ UNCHANGED <<currentLang, newArgs>>

SetLanguageCall(lang) ==
    /\ ret = NoCall
    /\ currentLang' = lang
    /\ ret' = [op |-> "SetLanguage", lang |-> lang]
    /\ UNCHANGED <<bloomFilters, dictionaries, newArgs, nAdds, bloomVars, readerVars>>

\* The step of a call that only reads the checker.
Query(r) ==
    /\ ret' = r
    /\ UNCHANGED <<dymVars, bloomVars, readerVars>>

GetCurrentLanguageCall ==
    /\ ret = NoCall
    /\ Query([op |-> "GetCurrentLanguage", result |-> currentLang])

IsCorrectForLanguageCall(word, lang) ==
    /\ ret = NoCall
    /\ Query([op |-> "IsCorrectForLanguage", word |-> word, lang |-> lang,
           result |-> IsCorrectForLanguage(bloomFilters, dictionaries, word, lang)])

\* IsCorrect looking the word up under the language DetectLanguage gives.
IsCorrectDetectCall(word) ==
    /\ ret = NoCall
    /\ Query([op |-> "IsCorrect", word |-> word, lang |-> currentLang,
           result |-> IsCorrectForLanguage(bloomFilters, dictionaries, word,
                                           DetectLanguage(word))])

IsCorrectCall(word) ==
    /\ ret = NoCall
    /\ Query([op |-> "IsCorrect", word |-> word, lang |-> currentLang,
           result |-> IsCorrectForLanguage(bloomFilters, dictionaries, word, currentLang)])

GetSuggestionsForLanguageCall(word, maxSuggestions, maxEditDistance, lang) ==
    /\ ret = NoCall
    /\ \E result \in GetSuggestionsForLanguage(bloomFilters, dictionaries, word,
                                            maxSuggestions, maxEditDistance, lang) :
        Query([op |-> "GetSuggestionsForLanguage", word |-> word, lang |-> lang,
               maxSuggestions |-> maxSuggestions, maxEditDistance |-> maxEditDistance,
               result |-> result])

GetSuggestionsCall(word, maxSuggestions, maxEditDistance) ==
    /\ ret = NoCall
    /\ \E result \in GetSuggestionsForLanguage(bloomFilters, dictionaries, word,
                                            maxSuggestions, maxEditDistance, currentLang) :
        Query([op |-> "GetSuggestions", word |-> word, lang |-> currentLang,
               maxSuggestions |-> maxSuggestions, maxEditDistance |-> maxEditDistance,
               result |-> result])

SuggestForLanguageCall(word, lang) ==
    /\ ret = NoCall
    /\ \E result \in SuggestForLanguage(bloomFilters, dictionaries, word, lang) :
        Query([op |-> "SuggestForLanguage", word |-> word, lang |-> lang,
               result |-> result])

SuggestCall(word) ==
    /\ ret = NoCall
    /\ \E result \in SuggestForLanguage(bloomFilters, dictionaries, word, currentLang) :
        Query([op |-> "Suggest", word |-> word, lang |-> currentLang,
               result |-> result])

GetSuggestionsWithThresholdCall(word, threshold, maxSuggestions) ==
    /\ ret = NoCall
    /\ \E result \in GetSuggestionsWithThreshold(bloomFilters, dictionaries, currentLang,
                                              word, threshold, maxSuggestions) :
        Query([op |-> "GetSuggestionsWithThreshold", word |-> word, lang |-> currentLang,
               threshold |-> threshold, maxSuggestions |-> maxSuggestions,
               result |-> result])

CheckAndSuggestForLanguageCall(word, lang) ==
    /\ ret = NoCall
    /\ \E r \in CheckAndSuggestForLanguage(bloomFilters, dictionaries, word, lang) :
        Query([op |-> "CheckAndSuggestForLanguage", word |-> word, lang |-> lang,
               correct |-> r[1], result |-> r[2]])

CheckAndSuggestCall(word) ==
    /\ ret = NoCall
    /\ \E r \in CheckAndSuggestForLanguage(bloomFilters, dictionaries, word, currentLang) :
        Query([op |-> "CheckAndSuggest", word |-> word, lang |-> currentLang,
               correct |-> r[1], result |-> r[2]])

\* AutoDetectAndSuggest making the detected language the active one.
AutoDetectAndSelectCall(word) ==
    LET detectedLang == DetectLanguage(word) IN
    /\ ret = NoCall
    /\ \E r \in CheckAndSuggestForLanguage(bloomFilters, dictionaries, word, detectedLang) :
        ret' = [op |-> "AutoDetectAndSuggest", word |-> word, lang |-> detectedLang,
                correct |-> r[1], result |-> r[2]]
    /\ currentLang' = detectedLang
    /\ UNCHANGED <<bloomFilters, dictionaries, newArgs, nAdds, bloomVars, readerVars>>

AutoDetectAndSuggestCall(word) ==
    LET detectedLang == DetectLanguage(word) IN
    /\ ret = NoCall
    /\ \E r \in CheckAndSuggestForLanguage(bloomFilters, dictionaries, word, detectedLang) :
        Query([op |-> "AutoDetectAndSuggest", word |-> word, lang |-> detectedLang,
               correct |-> r[1], result |-> r[2]])

Return ==
    /\ ret # NoCall
    /\ ret' = NoCall
    /\ UNCHANGED <<dymVars, bloomVars, readerVars>>

Next ==
    \/ \E a \in AddInputs : AddWordsForLanguageCall(a[1], a[2])
    \/ \E words \in AddWordsInputs : AddWordsCall(words)
    \/ \E lang \in LoadInputs : LoadDefaultDictionaryCall(lang)
    \/ \E lang \in SetLanguageInputs : SetLanguageCall(lang)
    \/ GetCurrentLanguageCall
    \/ \E q \in QueryInputs : IsCorrectForLanguageCall(q[1], q[2])
    \/ \E word \in QueryWords : IsCorrectCall(word)
    \/ \E q \in QueryInputs, nd \in CountDistanceInputs :
          GetSuggestionsForLanguageCall(q[1], nd[1], nd[2], q[2])
    \/ \E word \in QueryWords, nd \in CountDistanceInputs :
          GetSuggestionsCall(word, nd[1], nd[2])
    \/ \E q \in QueryInputs : SuggestForLanguageCall(q[1], q[2])
    \/ \E word \in QueryWords : SuggestCall(word)
    \/ \E word \in QueryWords, tn \in ThresholdInputs :
          GetSuggestionsWithThresholdCall(word, tn[1], tn[2])
    \/ \E q \in QueryInputs : CheckAndSuggestForLanguageCall(q[1], q[2])
    \/ \E word \in QueryWords : CheckAndSuggestCall(word)
    \/ \E word \in QueryWords : AutoDetectAndSuggestCall(word)
    \/ Return

Spec == Init /\ [][Next]_vars


(***************************************************************************)
(* A BloomFilter on its own: NewBloomFilter, then Add, AddWords and        *)
(* Contains in any order.  A call that panics ends the program.            *)
(***************************************************************************)
\* The arguments of NewBloomFilter and the items added and looked up.
BloomSizes == {0, 1, 16, 1000}
BloomHashCounts == {0, 1, 2, 5}
BloomItems == {W_go, W_do, W_gad, W_uxi, W_empty, W_salam}
BloomWordLists == {<< >>, <<W_go, W_do>>, <<W_uxi, W_salam, W_empty>>}

InitBloom ==
    /\ bloomFilters = << >> /\ dictionaries = << >> /\ currentLang = English
    /\ newArgs = [dictionarySize |-> 10000, numHashFuncs |-> 7]
    /\ nAdds = 0 /\ ret = NoCall
    /\ bloom \in {NewBloomFilter(size, k) : size \in BloomSizes, k \in BloomHashCounts}
    /\ bfAdded = {} /\ panicked = FALSE
    /\ hashFuncs = << >> /\ readers = << >>

\* A call on the filter that ends in a panic.
Panic ==
    /\ panicked' = TRUE
    /\ UNCHANGED <<dymVars, ret, bloom, bfAdded, readerVars>>

BloomAddCall(item) ==
    /\ ret = NoCall /\ ~panicked
    /\ IF ProbePanics(bloom) THEN Panic
       ELSE /\ bloom' = BloomAdd(bloom, item)
            /\ bfAdded' = bfAdded \cup {item}
            /\ ret' = [op |-> "Add", item |-> item]
            /\ UNCHANGED <<dymVars, panicked, readerVars>>

BloomAddWordsCall(words) ==
    /\ ret = NoCall /\ ~panicked
    /\ IF words # << >> /\ ProbePanics(bloom) THEN Panic
       ELSE /\ bloom' = BloomAddWords(bloom, words)
            /\ bfAdded' = bfAdded \cup Range(words)
            /\ ret' = [op |-> "AddWords", words |-> words]
            /\ UNCHANGED <<dymVars, panicked, readerVars>>

BloomContainsCall(item) ==
    /\ ret = NoCall /\ ~panicked
    /\ IF ProbePanics(bloom) THEN Panic
       ELSE /\ ret' = [op |-> "Contains", item |-> item,
                       result |-> BloomContains(bloom, item)]
            /\ UNCHANGED <<dymVars, bloomVars, readerVars>>

NextBloom ==
    \/ \E item \in BloomItems : BloomAddCall(item)
    \/ \E words \in BloomWordLists : BloomAddWordsCall(words)
    \/ \E item \in BloomItems : BloomContainsCall(item)
    \/ Return

SpecBloom == InitBloom /\ [][NextBloom]_vars


(***************************************************************************)
(* Concurrent readers.  A filter is loaded with ReaderWords, no write      *)
(* follows, and the goroutines of Readers call Contains on it.  Contains   *)
(* works on the filter's own hash objects: hashFuncs[i] is reset, fed the  *)
(* item and the salt, and read, in four method calls, and the method calls *)
(* of two goroutines interleave.                                           *)
(***************************************************************************)
Readers == {1, 2}
ReaderFilter == NewBloomFilter(1000, 2)
ReaderWords == <<W_go, W_do>>
ReaderItems == {W_go, W_do, W_gad}

Idle == [pc |-> "idle", item |-> << >>, i |-> 0, hash |-> FnvOffset64, result |-> FALSE]

InitReaders ==
    /\ bloomFilters = << >> /\ dictionaries = << >> /\ currentLang = English
    /\ newArgs = [dictionarySize |-> 10000, numHashFuncs |-> 7]
    /\ nAdds = 0 /\ ret = NoCall
    /\ bloom = BloomAddWords(ReaderFilter, ReaderWords)
    /\ bfAdded = Range(ReaderWords) /\ panicked = FALSE
    \* Add leaves in hashFuncs[i] the hash of the last item added.
    /\ hashFuncs = [i \in 0..(ReaderFilter.numHashFuncs - 1) |->
                        Sum64(ReaderWords[Len(ReaderWords)], i)]
    /\ readers = [r \in Readers |-> Idle]

ReaderStep(r, rec, hf) ==
    /\ readers' = [readers EXCEPT ![r] = rec]
    /\ hashFuncs' = hf
    /\ UNCHANGED <<dymVars, ret, bloomVars>>

\* Contains(item) is called: the loop starts at i = 0.
ContainsStart(r, item) ==
    /\ readers[r].pc = "idle"
    /\ ReaderStep(r, IF bloom.numHashFuncs > 0
                     THEN [Idle EXCEPT !.pc = "reset", !.item = item]
                     ELSE [Idle EXCEPT !.pc = "done", !.item = item, !.result = TRUE],
                  hashFuncs)

\* bf.hashFuncs[i].Reset()
ContainsReset(r) ==
    LET me == readers[r] IN
    /\ me.pc = "reset"
    /\ ReaderStep(r, [me EXCEPT !.pc = "write"],
                  [hashFuncs EXCEPT ![me.i] = FnvOffset64])

\* bf.hashFuncs[i].Write([]byte(item))
ContainsWrite(r) ==
    LET me == readers[r] IN
    /\ me.pc = "write"
    /\ ReaderStep(r, [me EXCEPT !.pc = "salt"],
                  [hashFuncs EXCEPT ![me.i] = FnvWrite(@, me.item)])

\* bf.hashFuncs[i].Write([]byte{byte(i)})
ContainsSalt(r) ==
    LET me == readers[r] IN
    /\ me.pc = "salt"
    /\ ReaderStep(r, [me EXCEPT !.pc = "sum"],
                  [hashFuncs EXCEPT ![me.i] = FnvWrite(@, <<me.i % 256>>)])

\* hash := bf.hashFuncs[i].Sum64()
ContainsSum(r) ==
    LET me == readers[r] IN
    /\ me.pc = "sum"
    /\ ReaderStep(r, [me EXCEPT !.pc = "test", !.hash = hashFuncs[me.i]], hashFuncs)

\* index := hash % size; if !bf.bitArray[index] { return false }; i++
ContainsTest(r) ==
    LET me == readers[r]
        index == FnvMod(me.hash, bloom.size) IN
    /\ me.pc = "test"
    /\ ReaderStep(r,
                  IF index \notin bloom.bitArray
                  THEN [me EXCEPT !.pc = "done", !.result = FALSE]
                  ELSE IF me.i + 1 < bloom.numHashFuncs
                  THEN [me EXCEPT !.pc = "reset", !.i = me.i + 1]
                  ELSE [me EXCEPT !.pc = "done", !.result = TRUE],
                  hashFuncs)

\* The caller takes the result.
ContainsReturn(r) ==
    /\ readers[r].pc = "done"
    /\ ReaderStep(r, Idle, hashFuncs)

NextReaders ==
    \/ \E r \in Readers, item \in ReaderItems : ContainsStart(r, item)
    \/ \E r \in Readers : ContainsReset(r)
    \/ \E r \in Readers : ContainsWrite(r)
    \/ \E r \in Readers : ContainsSalt(r)
    \/ \E r \in Readers : ContainsSum(r)
    \/ \E r \in Readers : ContainsTest(r)
    \/ \E r \in Readers : ContainsReturn(r)

SpecReaders == InitReaders /\ [][NextReaders]_vars


(***************************************************************************)
(* The package-level functions on their own: DetectLanguage,               *)
(* IsValidWordForLanguage, LevenshteinDistance and CalculateSimilarity are *)
(* called on words of one and of several scripts.                          *)
(***************************************************************************)
W_kaf == <<217, 131>>                       \* U+0643
W_kata == <<227, 131, 141, 227, 130, 179>>  \* U+30CD U+30B3
W_DaSin == <<208, 148, 216, 179>>           \* U+0414 U+0633
W_nekoCat == W_neko \o W_cat                \* U+306D U+3053 U+732B
W_hanDa == W_han \o <<208, 176>>            \* U+D55C U+0430
W_goHan == W_go \o W_han                    \* "go" U+D55C

PureWords ==
    {W_empty, W_go, W_do, W_dog, W_god, W_gd, W_gad, W_uxi, W_good, W_God_sp,
     W_salam, W_sin, W_kaf, W_Da, W_DaSin, W_neko, W_cat, W_nekoCat, W_kata,
     W_ga, W_han, W_hanDa, W_goHan, W_ete}

PureLangs == {English, Persian, Arabic, Russian, Chinese, Japanese, Korean, Unknown}

InitPure ==
    /\ bloomFilters = << >> /\ dictionaries = << >> /\ currentLang = English
    /\ newArgs = [dictionarySize |-> 10000, numHashFuncs |-> 7]
    /\ nAdds = 0 /\ ret = NoCall
    /\ NoBloom
    /\ hashFuncs = << >> /\ readers = << >>

DetectLanguageCall(word) ==
    /\ ret = NoCall
    /\ Query([op |-> "DetectLanguage", word |-> word, result |-> DetectLanguage(word)])

IsValidWordForLanguageCall(word, lang) ==
    /\ ret = NoCall
    /\ Query([op |-> "IsValidWordForLanguage", word |-> word, lang |-> lang,
              result |-> IsValidWordForLanguage(word, lang)])

LevenshteinDistanceCall(s1, s2) ==
    /\ ret = NoCall
    /\ Query([op |-> "LevenshteinDistance", s1 |-> s1, s2 |-> s2,
              result |-> LevenshteinDistance(s1, s2)])

CalculateSimilarityCall(s1, s2) ==
    /\ ret = NoCall
    /\ Query([op |-> "CalculateSimilarity", s1 |-> s1, s2 |-> s2,
              result |-> CalculateSimilarity(s1, s2)])

\* The <<word, maxDistance>> arguments of GenerateCandidates.
CandidateInputs == {W_go, W_Go, W_gd, W_sin} \X (0..2)

\* GenerateCandidates returns the keys of a map in no particular order: the
\* result is kept as the set of its elements.
GenerateCandidatesCall(word, maxDistance) ==
    /\ ret = NoCall
    /\ Query([op |-> "GenerateCandidates", word |-> word, maxDistance |-> maxDistance,
              result |-> GenerateCandidates(word, maxDistance)])

NextPure ==
    \/ \E word \in PureWords : DetectLanguageCall(word)
    \/ \E word \in PureWords, lang \in PureLangs : IsValidWordForLanguageCall(word, lang)
    \/ \E s1 \in PureWords, s2 \in PureWords : LevenshteinDistanceCall(s1, s2)
    \/ \E s1 \in PureWords, s2 \in PureWords : CalculateSimilarityCall(s1, s2)
    \/ \E in \in CandidateInputs : GenerateCandidatesCall(in[1], in[2])
    \/ Return

SpecPure == InitPure /\ [][NextPure]_vars

(***************************************************************************)
(* Properties of the checker (under Spec).                                 *)
(***************************************************************************)
AddOps == {"AddWordsForLanguage", "AddWords"}

\* The calls that return a list of suggestions in ret.result.
SuggestionOps ==
    {"GetSuggestionsForLanguage", "GetSuggestions", "GetSuggestionsWithThreshold",
     "CheckAndSuggestForLanguage", "CheckAndSuggest", "AutoDetectAndSuggest"}

CountedOps == {"GetSuggestionsForLanguage", "GetSuggestions"}

\* C1 as stated: right after AddWordsForLanguage(ws, L), or AddWords(ws) with
\* L the active language, IsCorrectForLanguage(w, L) is true for every w of ws.
C1_EveryAddedWordIsCorrect ==
    ret.op \in AddOps =>
        \A i \in 1..Len(ret.words) :
            IsCorrectForLanguage(bloomFilters, dictionaries, ret.words[i], ret.lang)

\* C1, amended: right after AddWordsForLanguage(ws, L), or AddWords(ws) with L
\* the active language, IsCorrectForLanguage(w, L) is true for every w of ws
\* whose normal form under L is a valid word of L.
C1_AddedValidWordIsCorrect ==
    ret.op \in AddOps =>
        \A i \in 1..Len(ret.words) :
            IsValidWordForLanguage(Normalize(GetLanguageInfo(ret.lang), ret.words[i]),
                                   ret.lang)
            => IsCorrectForLanguage(bloomFilters, dictionaries, ret.words[i], ret.lang)

\* " God" was added under English next to the invalid "g0": it is stored as
\* "god" and found, "g0" is not.
C1_Witness ==
    /\ ret.op = "AddWordsForLanguage" /\ ret.lang = English
    /\ ret.words = <<W_God_sp, W_good, W_g0, W_empty>>
    /\ IsCorrectForLanguage(bloomFilters, dictionaries, W_God_sp, English)
    /\ ~IsCorrectForLanguage(bloomFilters, dictionaries, W_g0, English)

\* C3 as stated: every per-language filter has the dictionarySize bits and
\* the numHashFuncs hash functions that were passed to NewDidYouMean.
C3_FiltersSizedByConstructor ==
    \A lang \in DOMAIN bloomFilters :
        /\ bloomFilters[lang].size = newArgs.dictionarySize
        /\ bloomFilters[lang].numHashFuncs = newArgs.numHashFuncs

\* C4: every suggestion returned by GetSuggestionsForLanguage, GetSuggestions,
\* GetSuggestionsWithThreshold, CheckAndSuggest(ForLanguage) and
\* AutoDetectAndSuggest is a word of the dictionary of the language asked.
C4_SuggestionsFromDictionary ==
    ret.op \in SuggestionOps =>
        \A i \in 1..Len(ret.result) :
            /\ ret.lang \in DOMAIN dictionaries
            /\ ret.result[i].Word \in dictionaries[ret.lang]

\* "gad" is a candidate of "gd" that the filter holds (it shares its seven
\* bits with "uxi") and the dictionary does not; the call returned other words.
C4_Witness ==
    /\ ret.op = "GetSuggestionsForLanguage" /\ ret.lang = English /\ ret.word = W_gd
    /\ ret.maxEditDistance >= 1
    /\ Len(ret.result) > 0
    /\ W_gad \in Candidates(W_gd, ret.maxEditDistance)
    /\ BloomContains(bloomFilters[English], W_gad)
    /\ W_gad \notin dictionaries[English]

\* C5 as stated: GetSuggestionsForLanguage and GetSuggestions return at most
\* maxSuggestions suggestions, for every maxSuggestions >= 0 and every word,
\* the correct ones included.
C5_AtMostMaxSuggestions ==
    ret.op \in CountedOps => Len(ret.result) <= ret.maxSuggestions

\* C6: the list returned by GetSuggestionsForLanguage and GetSuggestions is in
\* non-increasing order of similarity.
C6_NonIncreasingSimilarity ==
    ret.op \in CountedOps =>
        \A i \in 2..Len(ret.result) :
            SimGeq(ret.result[i - 1].Similarity, ret.result[i].Similarity)

\* A list of two suggestions of different similarity was returned.
C6_Witness ==
    /\ ret.op \in CountedOps
    /\ Len(ret.result) >= 2
    /\ SimGreater(ret.result[1].Similarity, ret.result[2].Similarity)

\* The queries whose results are compared across an add.
IsolationQueries == {q \in QueryInputs : Len(q[1]) <= 3}

\* C7: AddWordsForLanguage(ws, L), AddWords(ws) with L active and
\* LoadDefaultDictionary(L) leave the filter and the dictionary of every other
\* language code as they were, and with them every result of
\* IsCorrectForLanguage and GetSuggestionsForLanguage for another code.
C7_LanguagesIsolated ==
    [][(ret = NoCall /\ ret'.op \in AddOps \cup {"LoadDefaultDictionary"}) =>
        /\ \A lang \in (DOMAIN bloomFilters \cup DOMAIN bloomFilters') \ {ret'.lang} :
              /\ lang \in DOMAIN bloomFilters /\ lang \in DOMAIN bloomFilters'
              /\ bloomFilters'[lang] = bloomFilters[lang]
              /\ dictionaries'[lang] = dictionaries[lang]
        /\ \A q \in QueryInputs :
              q[2] # ret'.lang =>
                 IsCorrectForLanguage(bloomFilters', dictionaries', q[1], q[2])
                    = IsCorrectForLanguage(bloomFilters, dictionaries, q[1], q[2])
        /\ \A q \in IsolationQueries, nd \in CountDistanceInputs :
              q[2] # ret'.lang =>
                 GetSuggestionsForLanguage(bloomFilters', dictionaries', q[1],
                                           nd[1], nd[2], q[2])
                    = GetSuggestionsForLanguage(bloomFilters, dictionaries, q[1],
                                                nd[1], nd[2], q[2])
      ]_vars

\* Persian words were added after English ones: "go" is still an English word
\* with its English neighbours, and the Persian word is not an English one.
C7_Witness ==
    /\ ret.op \in {"AddWordsForLanguage", "LoadDefaultDictionary"} /\ ret.lang = Persian
    /\ W_salam \in dictionaries[Persian]
    /\ English \in DOMAIN dictionaries /\ W_go \in dictionaries[English]
    /\ IsCorrectForLanguage(bloomFilters, dictionaries, W_go, English)
    /\ ~IsCorrectForLanguage(bloomFilters, dictionaries, W_salam, English)
    /\ GetSuggestionsForLanguage(bloomFilters, dictionaries, W_gd, 2, 2, English)
          # {<< >>}

\* C9 as stated: AutoDetectAndSuggest(w) returns language L and correct = true
\* for every supported language L and every valid word w of L's dictionary.
C9_AutoDetectFindsLanguage ==
    ret.op = "AutoDetectAndSuggest" =>
        \A lang \in Range(GetSupportedLanguages) \cap DOMAIN dictionaries :
            (IsValidWordForLanguage(ret.word, lang) /\ ret.word \in dictionaries[lang])
            => (ret.lang = lang /\ ret.correct)

(***************************************************************************)
(* Properties of a BloomFilter on its own (under SpecBloom).               *)
(***************************************************************************)
\* C2: Contains(w) is true for every w that Add or AddWords has added,
\* whatever was added before or after it.
C2_NoFalseNegatives ==
    /\ (ret.op = "Contains" /\ ret.item \in bfAdded) => ret.result
    /\ ~ProbePanics(bloom) => \A item \in bfAdded : BloomContains(bloom, item)

\* "go" is looked up in a filter of several bits and hash functions after it and
\* other words were added.
C2_Witness ==
    /\ ret.op = "Contains" /\ ret.item = W_go /\ ret.result
    /\ {W_go, W_uxi, W_salam} \subseteq bfAdded
    /\ bloom.size >= 16 /\ bloom.numHashFuncs >= 2
    /\ \E item \in BloomItems : ~BloomContains(bloom, item)

\* C10 as stated: no call raises (panics), whatever the size and the number
\* of hash functions of the filter and whatever the word.
C10_NoPanic == ~panicked

(***************************************************************************)
(* Properties of concurrent readers (under SpecReaders).                   *)
(***************************************************************************)
\* C8 as stated: with no write going on, every one of several concurrent
\* calls of Contains returns what the call returns when it runs alone.
C8_ConcurrentReadsAgree ==
    \A r \in Readers :
        readers[r].pc = "done" =>
            readers[r].result = BloomContains(bloom, readers[r].item)


(***************************************************************************)
(* Further properties of the checker (under Spec).                         *)
(***************************************************************************)
\* The call in ret found no suggestion for its word.
NoSuggestionFound ==
    GetSuggestionsForLanguage(bloomFilters, dictionaries, ret.word, 1, 2, ret.lang)
        = {<< >>}

NormalizedInvalid(word, lang) ==
    ~IsValidWordForLanguage(Normalize(GetLanguageInfo(lang), word), lang)

\* C11 as stated: when no suggestion is found, SuggestForLanguage and Suggest
\* return the normal form of the word.
C11_SuggestReturnsNormalized ==
    (ret.op \in {"SuggestForLanguage", "Suggest"} /\ NoSuggestionFound)
        => ret.result = Normalize(GetLanguageInfo(ret.lang), ret.word)

\* C11, amended: when no suggestion is found, SuggestForLanguage and Suggest
\* return the word exactly as it was given, not its normal form.
C11_SuggestReturnsInput ==
    (ret.op \in {"SuggestForLanguage", "Suggest"} /\ NoSuggestionFound)
        => ret.result = ret.word

\* " God" has no neighbour in an English dictionary that holds only "uxi":
\* it is returned with its space and its capital.
C11_Witness ==
    /\ ret.op \in {"SuggestForLanguage", "Suggest"} /\ ret.lang = English
    /\ ret.word = W_God_sp /\ ret.result = W_God_sp
    /\ English \in DOMAIN dictionaries /\ dictionaries[English] = {W_uxi}
    /\ NoSuggestionFound
    /\ Normalize(GetLanguageInfo(English), W_God_sp) = W_god

\* C12: for a word whose normal form is not a valid word of the language,
\* IsCorrectForLanguage (IsCorrect) returns false and GetSuggestionsForLanguage
\* (GetSuggestions) returns no suggestion, in every reachable state.
C12_InvalidWordRejected ==
    /\ (ret.op \in {"IsCorrectForLanguage", "IsCorrect"}
          /\ NormalizedInvalid(ret.word, ret.lang)) => ~ret.result
    /\ (ret.op \in CountedOps /\ NormalizedInvalid(ret.word, ret.lang))
          => ret.result = << >>
    /\ \A lang \in DOMAIN dictionaries :
          \A w \in dictionaries[lang] : IsValidWordForLanguage(w, lang)

\* "g0" was in a list added under English and is looked up there.
C12_Witness ==
    /\ ret.op = "IsCorrectForLanguage" /\ ret.lang = English /\ ret.word = W_g0
    /\ ~ret.result
    /\ English \in DOMAIN dictionaries /\ W_good \in dictionaries[English]

\* C13: for a language code that never had words added, IsCorrectForLanguage
\* returns false, GetSuggestionsForLanguage returns an empty list and
\* CheckAndSuggestForLanguage returns (false, empty).
C13_UninitializedLanguage ==
    (ret.op \in {"IsCorrectForLanguage", "GetSuggestionsForLanguage",
                 "CheckAndSuggestForLanguage"}
       /\ ret.lang \notin DOMAIN dictionaries)
    => /\ ret.op = "IsCorrectForLanguage" => ~ret.result
       /\ ret.op = "GetSuggestionsForLanguage" => ret.result = << >>
       /\ ret.op = "CheckAndSuggestForLanguage" => (~ret.correct /\ ret.result = << >>)

\* "go" is an English word and French never had a word added: it is looked
\* up under French.
C13_Witness ==
    /\ ret.op = "IsCorrectForLanguage" /\ ret.lang = French /\ ret.word = W_go
    /\ French \notin DOMAIN dictionaries /\ French \notin DOMAIN bloomFilters
    /\ English \in DOMAIN dictionaries /\ W_go \in dictionaries[English]
    /\ ~ret.result

FilterCoversDictionary(bfs, dicts) ==
    \A lang \in DOMAIN dicts :
        /\ lang \in DOMAIN bfs
        /\ \A w \in dicts[lang] : BloomContains(bfs[lang], w)

\* C19: in every reachable state, for every language with a pair, the filter
\* reports every word of the dictionary as present: so it is initially and
\* after every step that changes a filter or a dictionary.
C19_FilterCoversDictionary ==
    /\ FilterCoversDictionary(bloomFilters, dictionaries)
    /\ [][<<bloomFilters, dictionaries>>' # <<bloomFilters, dictionaries>>
            => FilterCoversDictionary(bloomFilters', dictionaries')]_vars

\* Two languages have a pair, English with words that were normalized on the way.
C19_Witness ==
    /\ English \in DOMAIN dictionaries /\ Persian \in DOMAIN dictionaries
    /\ {W_god, W_good} \subseteq dictionaries[English]
    /\ W_salam \in dictionaries[Persian]
    /\ ~BloomContains(bloomFilters[English], W_God_sp)

\* C20: a pair, once created, stays; no bit of its filter is cleared, its size
\* and hash count stay, no word leaves its dictionary, and a word that
\* IsCorrectForLanguage accepts is accepted in every later state.
C20_StateOnlyGrows ==
    [][/\ \A lang \in DOMAIN bloomFilters :
             /\ lang \in DOMAIN bloomFilters'
             /\ bloomFilters[lang].bitArray \subseteq bloomFilters'[lang].bitArray
             /\ bloomFilters'[lang].size = bloomFilters[lang].size
             /\ bloomFilters'[lang].numHashFuncs = bloomFilters[lang].numHashFuncs
       /\ \A lang \in DOMAIN dictionaries :
             /\ lang \in DOMAIN dictionaries'
             /\ dictionaries[lang] \subseteq dictionaries'[lang]
       /\ <<bloomFilters, dictionaries>>' # <<bloomFilters, dictionaries>> =>
             \A q \in QueryInputs :
                IsCorrectForLanguage(bloomFilters, dictionaries, q[1], q[2])
                   => IsCorrectForLanguage(bloomFilters', dictionaries', q[1], q[2])
      ]_vars

\* A second list was added under English: the words of the first are still there.
C20_Witness ==
    /\ ret.op \in AddOps /\ ret.lang = English /\ nAdds = 2
    /\ W_uxi \notin Range(ret.words)
    /\ W_uxi \in dictionaries[English] /\ W_go \in dictionaries[English]
    /\ IsCorrectForLanguage(bloomFilters, dictionaries, W_uxi, English)

CodePoints(word) == {Runes(word)[i] : i \in 1..Len(Runes(word))}

HasCodePointIn(word, lo, hi) == \E r \in CodePoints(word) : r >= lo /\ r <= hi

\* The Unicode category that makes a code point a valid one for the language.
InCategory(r, lang) ==
    CASE lang = Chinese  -> IsHan(r) \/ IsLetter(r)
      [] lang = Japanese -> IsHiragana(r) \/ IsKatakana(r) \/ IsHan(r) \/ IsLetter(r)
      [] lang = Korean   -> IsHangul(r) \/ IsLetter(r)

\* C15 as stated: for Chinese, Japanese and Korean a word is valid exactly
\* when it is not empty and every code point is in the script category of
\* the language (Han; Hiragana, Katakana, Han; Hangul) or is a letter.
C15_ValidityByCategory ==
    (ret.op = "IsValidWordForLanguage" /\ ret.lang \in {Chinese, Japanese, Korean})
    => ret.result = (/\ Len(ret.word) > 0
                     /\ \A r \in CodePoints(ret.word) : InCategory(r, ret.lang))

OneEditAway(s, alphabet) ==
    {Slice(s, 0, i) \o Slice(s, i + 1, Len(s)) : i \in 0..(Len(s) - 1)}
    \cup {Slice(s, 0, i) \o <<c>> \o Slice(s, i, Len(s)) : i \in 0..Len(s), c \in alphabet}
    \cup {Slice(s, 0, i) \o <<c>> \o Slice(s, i + 1, Len(s)) :
            i \in 0..(Len(s) - 1), c \in alphabet}

RECURSIVE EditsTo(_, _, _, _, _)
\* The least number of edits that lead from a string of reached to target,
\* plus k.  A shortest sequence of edits needs no byte that target lacks and
\* no string longer than the longer of its two ends (maxLen).
EditsTo(reached, target, alphabet, maxLen, k) ==
    IF target \in reached THEN k
    ELSE EditsTo(reached \cup {t \in UNION {OneEditAway(s, alphabet) : s \in reached} :
                                  Len(t) <= maxLen},
                 target, alphabet, maxLen, k + 1)

MinEdits(a, b) == EditsTo({a}, b, Range(b), max(Len(a), Len(b)), 0)

\* The pairs on which the distance is compared with the search above.
ShortPair(a, b) == Len(a) <= 3 /\ Len(b) <= 3

\* C17: LevenshteinDistance(a, b) is the least number of insertions, deletions
\* and substitutions of one byte that turn a into b; to or from the empty
\* string it is the number of bytes of the other string.
C17_DistanceIsMinimalEdits ==
    ret.op = "LevenshteinDistance" =>
        /\ ShortPair(ret.s1, ret.s2) => ret.result = MinEdits(ret.s1, ret.s2)
        /\ ret.s1 = << >> => ret.result = Len(ret.s2)
        /\ ret.s2 = << >> => ret.result = Len(ret.s1)

\* "god" to "dog" takes two substitutions, and the Persian word of four
\* letters is eight bytes from the empty string.
C17_Witness ==
    \/ /\ ret.op = "LevenshteinDistance" /\ ret.s1 = W_god /\ ret.s2 = W_dog
       /\ ret.result = 2 /\ MinEdits(W_god, W_dog) = 2
    \/ /\ ret.op = "LevenshteinDistance" /\ ret.s1 = W_salam /\ ret.s2 = W_empty
       /\ ret.result = 8 /\ Len(Runes(W_salam)) = 4

\* C18: LevenshteinDistance(a, b) <= max(len(a), len(b)), so that
\* 0 <= CalculateSimilarity(a, b) <= 1, and CalculateSimilarity(a, b) = 1
\* exactly when a = b.
C18_SimilarityInUnitInterval ==
    /\ ret.op = "LevenshteinDistance" =>
          (ret.result >= 0 /\ ret.result <= max(Len(ret.s1), Len(ret.s2)))
    /\ ret.op = "CalculateSimilarity" =>
          /\ ret.result.den > 0
          /\ SimGeq(ret.result, Score(0, 1))
          /\ SimGeq(Score(1, 1), ret.result)
          /\ SimEq(ret.result, Score(1, 1)) <=> (ret.s1 = ret.s2)

\* Two words with no byte in common score 0, and the score of "go" and "god"
\* lies strictly between 0 and 1.
C18_Witness ==
    \/ /\ ret.op = "CalculateSimilarity" /\ ret.s1 = W_go /\ ret.s2 = W_uxi
       /\ SimEq(ret.result, Score(0, 1))
    \/ /\ ret.op = "CalculateSimilarity" /\ ret.s1 = W_go /\ ret.s2 = W_god
       /\ SimEq(ret.result, Score(1, 3))

(***************************************************************************)
(* C21.  A language code that is none of the eleven is given the English    *)
(* profile.                                                                 *)
(***************************************************************************)
Supported == Range(GetSupportedLanguages)

\* C21: GetLanguageInfo of a code outside the supported set is the English
\* profile, and the checker treats such a code as English: a bulk add under it
\* stores exactly the words whose English normal form is a valid English
\* word, in that normal form, and a lookup under it answers for the English
\* normal form of the word.
C21_UnknownCodeIsEnglish ==
    /\ \A lang \in (DOMAIN dictionaries) \ Supported :
          /\ GetLanguageInfo(lang) = GetLanguageInfo(English)
          /\ \A w \in dictionaries[lang] :
                normalizeEnglish(w) = w /\ IsValidWordForLanguage(w, English)
    /\ (ret.op \in AddOps /\ ret.lang \notin Supported) =>
          \A i \in 1..Len(ret.words) :
             LET n == normalizeEnglish(ret.words[i]) IN
             IsValidWordForLanguage(n, English) => n \in dictionaries[ret.lang]
    /\ (ret.op = "IsCorrectForLanguage" /\ ret.lang \notin Supported) =>
          /\ GetLanguageInfo(ret.lang) = GetLanguageInfo(English)
          /\ ret.result = (/\ ret.lang \in DOMAIN dictionaries
                           /\ normalizeEnglish(ret.word) \in dictionaries[ret.lang])

\* "Go" was added under the code "xx" and "go" is looked up under it.
C21_Witness ==
    /\ ret.op = "IsCorrectForLanguage" /\ ret.lang = Unknown /\ ret.word = W_go
    /\ Unknown \in DOMAIN dictionaries /\ W_go \in dictionaries[Unknown]
    /\ ret.result = TRUE

(***************************************************************************)
(* C22.  Correctness is membership of the exact dictionary.                 *)
(***************************************************************************)
\* C22: IsCorrectForLanguage(w, L) is true if and only if the normal form of
\* w is in the dictionary of L; a filter whose bits for the word all happen
\* to be set does not make the word correct.
C22_CorrectIffInDictionary ==
    ret.op = "IsCorrectForLanguage" =>
        ret.result = (/\ ret.lang \in DOMAIN dictionaries
                      /\ Normalize(GetLanguageInfo(ret.lang), ret.word)
                            \in dictionaries[ret.lang])

\* "gad" was never added, all its bits are set by "uxi", and it is not correct.
C22_Witness ==
    /\ ret.op = "IsCorrectForLanguage" /\ ret.lang = English /\ ret.word = W_gad
    /\ English \in DOMAIN bloomFilters
    /\ BloomContains(bloomFilters[English], W_gad)
    /\ W_gad \notin dictionaries[English]
    /\ ret.result = FALSE

(***************************************************************************)
(* C23.  Candidates and the alphabet of the language.                       *)
(***************************************************************************)
\* The words one inserted or one substituted letter of the alphabet of lang
\* away from word, letters being code points.
OneLetterAway(word, lang) ==
    LET r == Runes(word)
        A == GetLanguageInfo(lang).Alphabet
    IN  {EncodeRunes(SubSeq(r, 1, i) \o <<a>> \o SubSeq(r, i + 1, Len(r))) :
            i \in 0..Len(r), a \in A}
        \cup {EncodeRunes([r EXCEPT ![i[1]] = i[2]]) : i \in (1..Len(r)) \X A}

\* C23: when suggestions are generated for language L with an edit distance
\* of at least one, a dictionary word of L that is one inserted or substituted
\* letter of L's alphabet away from the normalized input is suggested (it is
\* in the returned list unless the list is full).
C23_CandidatesFromLanguageAlphabet ==
    (/\ ret.op = "GetSuggestionsForLanguage" /\ ret.maxEditDistance >= 1
     /\ ret.lang \in DOMAIN dictionaries) =>
        LET normalized == Normalize(GetLanguageInfo(ret.lang), ret.word) IN
        (/\ IsValidWordForLanguage(normalized, ret.lang)
         /\ normalized \notin dictionaries[ret.lang]) =>
            \A d \in dictionaries[ret.lang] \cap OneLetterAway(normalized, ret.lang) :
                \/ Len(ret.result) = ret.maxSuggestions
                \/ \E k \in 1..Len(ret.result) : ret.result[k].Word = d

(***************************************************************************)
(* C24.  A word is suggested once.                                          *)
(***************************************************************************)
\* C24: the list returned by GetSuggestionsForLanguage never holds the same
\* word at two positions.
C24_NoWordTwice ==
    ret.op = "GetSuggestionsForLanguage" =>
        \A i, j \in 1..Len(ret.result) :
            i # j => ret.result[i].Word # ret.result[j].Word

(***************************************************************************)
(* C25.  Candidates and the distance of the similarity metric (SpecPure).   *)
(***************************************************************************)
\* C25: every string returned by GenerateCandidates(w, D) is within
\* LevenshteinDistance D of the lower-cased w.
C25_CandidatesWithinDistance ==
    ret.op = "GenerateCandidates" =>
        \A c \in ret.result :
            LevenshteinDistance(ToLower(ret.word), c) <= ret.maxDistance

Without(x, i) == SubSeq(x, 1, i - 1) \o SubSeq(x, i + 1, Len(x))

\* One edit operation on a sequence of letters leads from x to y: a letter
\* deleted, a letter a-z inserted or put in the place of another letter, or
\* two adjacent letters swapped.
OneLetterOp(x, y) ==
    \/ Len(y) = Len(x) - 1 /\ \E i \in 1..Len(x) : y = Without(x, i)
    \/ Len(y) = Len(x) + 1
          /\ \E i \in 1..Len(y) : y[i] \in 97..122 /\ x = Without(y, i)
    \/ Len(y) = Len(x)
          /\ \/ \E i \in 1..Len(x) :
                   y[i] \in 97..122 /\ y[i] # x[i] /\ y = [x EXCEPT ![i] = y[i]]
             \/ \E i \in 1..(Len(x) - 1) :
                   y = [x EXCEPT ![i] = x[i + 1], ![i + 1] = x[i]]

\* The letter sequences one edit operation away from x.
LetterOps(x) ==
    {Without(x, i) : i \in 1..Len(x)}
    \cup {SubSeq(x, 1, i) \o <<c>> \o SubSeq(x, i + 1, Len(x)) :
            i \in 0..Len(x), c \in 97..122}
    \cup {[x EXCEPT ![i[1]] = i[2]] : i \in (1..Len(x)) \X (97..122)}
    \cup {[x EXCEPT ![i] = x[i + 1], ![i + 1] = x[i]] : i \in 1..(Len(x) - 1)}

\* One letter of x replaced by a neighbour of it on the keyboard gives y.
KeyboardOp(x, y) ==
    /\ Len(y) = Len(x)
    /\ \E i \in 1..Len(x) :
          /\ x[i] \in DOMAIN Keyboard /\ y[i] \in Keyboard[x[i]]
          /\ y = [x EXCEPT ![i] = y[i]]

\* The word d is within reach of the word w: at most two edit operations, or
\* one keyboard substitution.
WithinReach(w, d) ==
    LET x == Runes(w)
        y == Runes(d)
    IN  \/ x = y
        \/ OneLetterOp(x, y)
        \/ KeyboardOp(x, y)
        \/ /\ Len(y) - Len(x) \in -2..2
           /\ \E e \in LetterOps(x) : OneLetterOp(e, y)

\* C27: for an incorrect but valid word, Suggest and SuggestForLanguage
\* return a dictionary word at least as similar to the normalized word as
\* every dictionary word within reach of it; when no dictionary word is
\* within reach they return no dictionary word.
C27_SuggestReturnsBestWithinReach ==
    (/\ ret.op \in {"Suggest", "SuggestForLanguage"}
     /\ ret.lang \in DOMAIN dictionaries) =>
        LET normalized == Normalize(GetLanguageInfo(ret.lang), ret.word)
            dict == dictionaries[ret.lang]
            reach == {d \in dict : WithinReach(normalized, d)}
        IN  (IsValidWordForLanguage(normalized, ret.lang) /\ normalized \notin dict) =>
               IF reach = {} THEN ret.result \notin dict
               ELSE /\ ret.result \in dict
                    /\ \A d \in reach :
                          SimGeq(CalculateSimilarity(normalized, ret.result),
                                 CalculateSimilarity(normalized, d))

(***************************************************************************)
(* C28.  GetSuggestionsWithThreshold.                                       *)
(***************************************************************************)
\* The full similarity-ordered suggestion lists of word at distance 2: no
\* list is longer than two entries for every dictionary word.
FullSuggestionLists(word, lang) ==
    IF lang \notin DOMAIN dictionaries THEN {<< >>}
    ELSE GetSuggestionsForLanguage(bloomFilters, dictionaries, word,
                                   2 * Cardinality(dictionaries[lang]) + 1, 2, lang)

\* C28: GetSuggestionsWithThreshold(w, t, n) with n >= 0 returns at most n
\* suggestions, each of similarity at least t, and the result is the first n
\* entries of a full similarity-ordered suggestion list (distance 2, active
\* language) restricted to the entries of similarity at least t: fetching
\* 2n suggestions before filtering drops no qualifying entry.
C28_ThresholdIsFilteredPrefix ==
    ret.op = "GetSuggestionsWithThreshold" =>
        /\ Len(ret.result) <= ret.maxSuggestions
        /\ \A k \in 1..Len(ret.result) :
              SimGeq(ret.result[k].Similarity, ret.threshold)
        /\ \E full \in FullSuggestionLists(ret.word, ret.lang) :
              LET qualifying == SelectSeq(full,
                                  LAMBDA x : SimGeq(x.Similarity, ret.threshold))
                  n == IF Len(qualifying) < ret.maxSuggestions
                       THEN Len(qualifying) ELSE ret.maxSuggestions
              IN  ret.result = SubSeq(qualifying, 1, n)

\* "gd" with threshold 0.5 and n = 1, while "go", "do" and "dog" are in the
\* dictionary: the one suggestion has similarity exactly 0.5, and the full
\* list is longer than the 2n entries that were fetched.
C28_Witness ==
    /\ ret.op = "GetSuggestionsWithThreshold" /\ ret.word = W_gd
    /\ ret.maxSuggestions = 1 /\ ret.threshold = Score(1, 2)
    /\ Len(ret.result) = 1 /\ SimEq(ret.result[1].Similarity, Score(1, 2))
    /\ \E full \in FullSuggestionLists(ret.word, ret.lang) : Len(full) > 2

(***************************************************************************)
(* C29.  The active language and the operations that name a language.       *)
(***************************************************************************)
\* C29: only SetLanguage changes the active language: every other call, and
\* the return of every call, leaves it as it was.  The result of a
\* ...ForLanguage operation is determined by the two maps, the word and the
\* language given, and that of AutoDetectAndSuggest by the two maps, the
\* word and the language DetectLanguage gives: the active language has no
\* part in them.
C29_SelectorSetOnlyBySetLanguage ==
    [][/\ ret'.op # "SetLanguage" => currentLang' = currentLang
       /\ ret'.op = "IsCorrectForLanguage" =>
             ret'.result = (/\ ret'.lang \in DOMAIN dictionaries
                            /\ Normalize(GetLanguageInfo(ret'.lang), ret'.word)
                                  \in dictionaries[ret'.lang])
       /\ ret'.op = "GetSuggestionsForLanguage" =>
             ret'.result \in GetSuggestionsForLanguage(bloomFilters, dictionaries,
                                ret'.word, ret'.maxSuggestions, ret'.maxEditDistance,
                                ret'.lang)
       /\ ret'.op = "SuggestForLanguage" =>
             ret'.result \in SuggestForLanguage(bloomFilters, dictionaries,
                                                ret'.word, ret'.lang)
       /\ ret'.op = "CheckAndSuggestForLanguage" =>
             <<ret'.correct, ret'.result>>
                 \in CheckAndSuggestForLanguage(bloomFilters, dictionaries,
                                                ret'.word, ret'.lang)
       /\ ret'.op = "AutoDetectAndSuggest" =>
             /\ ret'.lang = DetectLanguage(ret'.word)
             /\ <<ret'.correct, ret'.result>>
                   \in CheckAndSuggestForLanguage(bloomFilters, dictionaries,
                                                  ret'.word, DetectLanguage(ret'.word))
       /\ ret'.op \in {"LoadDefaultDictionary", "AddWordsForLanguage"} =>
             LET pair == AddedPair(bloomFilters, dictionaries, ret'.words, ret'.lang)
             IN  /\ bloomFilters' = MapPut(bloomFilters, ret'.lang, pair[1])
                 /\ dictionaries' = MapPut(dictionaries, ret'.lang, pair[2])
      ]_vars

\* The active language is Persian and has a dictionary without "go";
\* AutoDetectAndSuggest("go") answers for English, where "go" is correct.
C29_Witness ==
    /\ ret.op = "AutoDetectAndSuggest" /\ ret.word = W_go /\ ret.lang = English
    /\ currentLang = Persian
    /\ Persian \in DOMAIN dictionaries /\ W_go \notin dictionaries[Persian]
    /\ English \in DOMAIN dictionaries /\ W_go \in dictionaries[English]
    /\ ret.correct = TRUE

=============================================================================
